---------------------------- MODULE Spec2Model ----------------------------
(***************************************************************************)
(* Model of the notice notification dispatch of openimis-be-notice_py:     *)
(*   notice/services.py      providers and NotificationService             *)
(*   notice/gql_mutations.py execute_notification_task and its task, and   *)
(*                           the Create, Update, Delete, Toggle and Send   *)
(*                           mutations of a notice                         *)
(*                                                                         *)
(* Five specifications share the variables:                                *)
(*   Spec        the service layer, any transport outcome per call         *)
(*   SpecStub    the service layer against stub transports, with the       *)
(*               previous call remembered                                  *)
(*   SpecExec    execute_notification_task and the worker                  *)
(*   SpecNotice  the Create, Update, Delete and Toggle mutations           *)
(*   SpecSend    the Send mutation                                         *)
(*                                                                         *)
(* Python strings are modelled as sequences of text fragments, so that     *)
(* concatenation (f-strings) and str() of an exception are computed and    *)
(* not assumed.  A recipient address is a number in 1..MaxRecipients.      *)
(*                                                                         *)
(* A local variable of the code, as in `t = f(x)` followed by uses of t,   *)
(* is written  CHOOSE out \in { e(t) : t \in {f(x)} } : TRUE,  which is    *)
(* e(f(x)) with f(x) computed once.                                        *)
(***************************************************************************)
EXTENDS Naturals, Sequences, FiniteSets

\* ------------------------------------------------------------------ bounds

\* Longest recipient list handed to a provider.
MaxRecipients == 2

\* Largest number of entries of a channel map.
MaxChannels == 2

\* Most tasks ever submitted to the task queue in one behaviour.
MaxTasks == 2

\* ------------------------------------------------------------------ state

VARIABLES
    gateway_url,        \* SMSNotificationProvider.gateway_url (settings.SMS_GATEWAY_URL)
    api_key,            \* SMSNotificationProvider.api_key (settings.SMS_GATEWAY_API_KEY)
    providers,          \* NotificationService.providers: channel name -> provider class
    CELERY_AVAILABLE,   \* module-level flag of gql_mutations.py
    notices,            \* Notice table: id -> row (only the fields the dispatch reads)
    queue,              \* tasks submitted with .delay() and not yet run by a worker
    task_seq,           \* number of tasks submitted so far (source of task ids)
    call,               \* the call in progress: operation name and arguments
    ret,                \* what that call returned or raised
    log,                \* the external I/O and the nested calls that call made
    attachments,        \* NoticeAttachment table: the rows, in the order saved
    transport,          \* what the stub transports answer (fixed for a behaviour)
    prev                \* the previous call against the stub: arguments, result, I/O

vars == <<gateway_url, api_key, providers, CELERY_AVAILABLE, notices, queue,
          task_seq, call, ret, log, attachments, transport, prev>>

\* ---------------------------------------------------------- python values

\* Python's None in a place that otherwise holds a string.
None == <<"<None>">>

\* An unset setting; `not x` is true of it.
Unset == "unset"

Truthy(x) == x # Unset

\* The exception classes that occur.  ValidationError is django's.
VALIDATION_ERROR == "ValidationError"

OTHER_ERROR == "Exception"

NoExc == [type |-> "none", message |-> <<>>]

ValidationError(message) == [type |-> VALIDATION_ERROR, message |-> message]

OtherError(message) == [type |-> OTHER_ERROR, message |-> message]

\* Fragments that carry a single quote character.
QuoteFragments == {"['", "']"}

HasSingleQuote(s) == \E i \in DOMAIN s : s[i] \in QuoteFragments

\* repr() of a one-element list of str: python quotes the element with ' unless
\* the element itself holds a ' (and no "), and then with ".
ReprList(s) ==
    IF HasSingleQuote(s) THEN <<"[\"">> \o s \o <<"\"]">>
                         ELSE <<"['">> \o s \o <<"']">>

\* str(exc).  django's ValidationError.__str__ is repr(list(self)): the message
\* list, not the message; every other exception prints its message.
Str(exc) ==
    IF exc.type = VALIDATION_ERROR THEN ReprList(exc.message) ELSE exc.message

\* ------------------------------------------------------------ environment

\* What the mail transport does with one send_mail() call.
MailOutcomes == {"accepted", "raises"}

\* What the SMS gateway does with one POST: the request raises (network error,
\* timeout), or answers with a status code and a body.
PostOutcomes ==
    { [raises |-> TRUE,  status_code |-> 0,   body |-> "none"],
      [raises |-> FALSE, status_code |-> 200, body |-> "success_true"],
      [raises |-> FALSE, status_code |-> 200, body |-> "success_false"],
      [raises |-> FALSE, status_code |-> 200, body |-> "success_missing"],
      [raises |-> FALSE, status_code |-> 200, body |-> "not_json"],
      [raises |-> FALSE, status_code |-> 500, body |-> "success_true"] }

\* Whether .delay() reaches the broker.
DelayOutcomes == {"queued", "raises"}

\* The text of the exceptions the environment raises.
SMTP_ERROR == <<"SMTP connection refused">>

BROKER_ERROR == <<"broker connection refused">>

\* ------------------------------------------------------------------- logs

\* attempts:      the send_notification calls of send_multi_channel, each with
\*                the channel and whether, and with what, the call raised
\* providerCalls: channels whose provider's send() was entered
\* posts:         the HTTP POSTs issued, in order, with the gateway's answer
\* mails:         the send_mail() calls, with their recipient list
\* submitted:     the .delay() calls, with their outcome
\* syncRuns:      what each run of _send_notice_notification_sync returned
\* dispatch:      what each run of send_multi_channel returned
\* steps:         the saves, dispatch calls and warnings of a mutation, in order
NoLog ==
    [attempts |-> <<>>, providerCalls |-> <<>>, posts |-> <<>>, mails |-> <<>>,
     submitted |-> <<>>, syncRuns |-> <<>>, dispatch |-> <<>>, steps |-> <<>>]

Cat(a, b) ==
    [attempts |-> a.attempts \o b.attempts,
     providerCalls |-> a.providerCalls \o b.providerCalls,
     posts |-> a.posts \o b.posts,
     mails |-> a.mails \o b.mails,
     submitted |-> a.submitted \o b.submitted,
     syncRuns |-> a.syncRuns \o b.syncRuns,
     dispatch |-> a.dispatch \o b.dispatch,
     steps |-> a.steps \o b.steps]

\* The outcome of running a function: it returned value, or raised exc.
Returned(value, l) == [raised |-> FALSE, value |-> value, exc |-> NoExc, log |-> l]

Raised(exc, l) == [raised |-> TRUE, value |-> FALSE, exc |-> exc, log |-> l]


Put(d, k, v) == [x \in (DOMAIN d) \cup {k} |-> IF x = k THEN v ELSE d[x]]

EmptyDict == [x \in {} |-> FALSE]

\* -------------------------------------------------- EmailNotificationProvider

DEFAULT_COLOR == "#3498db"

\* The keys of priority_colors.
PriorityNames == {"high", "medium", "low", "urgent", "normal"}

priority_colors ==
    [p \in PriorityNames |->
        CASE p = "high"   -> "#e74c3c"
          [] p = "medium" -> "#f39c12"
          [] p = "low"    -> "#27ae60"
          [] p = "urgent" -> "#c0392b"
          [] p = "normal" -> "#3498db"]

\* The priority strings of the model, and str.lower() on them.
Priorities == {"high", "HIGH", "Medium", "low", "URGENT", "normal", "critical", ""}

Lower(p) ==
    CASE p = "HIGH"   -> "high"
      [] p = "Medium" -> "medium"
      [] p = "URGENT" -> "urgent"
      [] OTHER        -> p

\* A variant of PriorityColor that looks the priority up as it was given.
PriorityColorCaseSensitive(priority) ==
    IF priority \in DOMAIN priority_colors
    THEN priority_colors[priority]
    ELSE DEFAULT_COLOR

\* priority_colors.get(priority.lower(), '#3498db')
PriorityColor(priority) ==
    IF Lower(priority) \in DOMAIN priority_colors
    THEN priority_colors[Lower(priority)]
    ELSE DEFAULT_COLOR

\* The body of the try block of EmailNotificationProvider.send.
EmailTry(recipients, priority, mail) ==
    IF recipients = <<>>
    THEN Raised(ValidationError(<<"No valid recipients provided">>), NoLog)
    ELSE LET sent == [NoLog EXCEPT !.mails =
                        <<[to |-> recipients, color |-> PriorityColor(priority),
                           outcome |-> mail]>>]
         IN  IF mail = "raises"
             THEN Raised(OtherError(SMTP_ERROR), sent)
             ELSE Returned(TRUE, sent)

\* except Exception as exc: raise ValidationError(f"Failed to send email: {str(exc)}")
EmailExcept(exc) == ValidationError(<<"Failed to send email: ">> \o Str(exc))

\* A variant of EmailSend that reports a failure by returning False, as the
\* docstring's "True if successful, False otherwise" reads.
EmailSendReturnsFalse(recipients, priority, mail) ==
    CHOOSE out \in { IF t.raised THEN Returned(FALSE, t.log) ELSE t :
                       t \in {EmailTry(recipients, priority, mail)} } : TRUE

EmailSend(recipients, priority, mail) ==
    CHOOSE out \in { IF t.raised THEN Raised(EmailExcept(t.exc), t.log) ELSE t :
                       t \in {EmailTry(recipients, priority, mail)} } : TRUE

\* ---------------------------------------------------- SMSNotificationProvider

SMS_NOT_CONFIGURED == <<"SMS provider not configured">>

SMS_NO_RECIPIENT == <<"Failed to send SMS to any recipient">>

\* A variant of PostSucceeded that looks at the status code alone.
PostSucceededStatusOnly(outcome) == ~outcome.raises /\ outcome.status_code = 200

\* One iteration of the recipient loop counts a success exactly when the POST
\* returned, with status 200, a JSON body whose "success" is truthy.  A request
\* that raises and a body json() cannot parse are caught by the inner except.
PostSucceeded(outcome) ==
    /\ ~outcome.raises
    /\ outcome.status_code = 200
    /\ outcome.body = "success_true"

SmsIteration(acc, recipient, outcome) ==
    [success_count |-> acc.success_count + (IF PostSucceeded(outcome) THEN 1 ELSE 0),
     posts |-> Append(acc.posts, [to |-> recipient, outcome |-> outcome])]

\* A variant of SmsLoop that leaves the loop at the first POST that fails.
RECURSIVE SmsLoopStopsAtFailure(_, _, _, _)
SmsLoopStopsAtFailure(recipients, reply, i, acc) ==
    IF i > Len(recipients)
    THEN acc
    ELSE CHOOSE out \in { IF PostSucceeded(reply[i])
                          THEN SmsLoopStopsAtFailure(recipients, reply, i + 1, next)
                          ELSE next :
                            next \in {SmsIteration(acc, recipients[i], reply[i])} } : TRUE

\* for recipient in recipients: ...   (reply[i] is the gateway's answer to the
\* i-th POST of the call)
RECURSIVE SmsLoop(_, _, _, _)
SmsLoop(recipients, reply, i, acc) ==
    IF i > Len(recipients)
    THEN acc
    ELSE CHOOSE out \in { SmsLoop(recipients, reply, i + 1, next) :
                            next \in {SmsIteration(acc, recipients[i], reply[i])} } : TRUE

\* if success_count > 0: return True / else: raise ValidationError(...)
SmsResult(success_count, l) ==
    IF success_count > 0
    THEN Returned(TRUE, l)
    ELSE Raised(ValidationError(SMS_NO_RECIPIENT), l)

\* The body of the try block of SMSNotificationProvider.send.
SmsTry(recipients, reply) ==
    CHOOSE out \in { SmsResult(r.success_count, [NoLog EXCEPT !.posts = r.posts]) :
                       r \in {SmsLoop(recipients, reply, 1,
                                      [success_count |-> 0, posts |-> <<>>])} } : TRUE

\* except Exception as exc: raise ValidationError(f"Failed to send SMS: {str(exc)}")
\* The ValidationError raised inside the try block is caught here as well.
SmsExcept(exc) == ValidationError(<<"Failed to send SMS: ">> \o Str(exc))

\* if not self.gateway_url or not self.api_key
SmsNotConfigured == ~Truthy(gateway_url) \/ ~Truthy(api_key)

SmsSend(recipients, reply) ==
    IF SmsNotConfigured
    THEN Raised(ValidationError(SMS_NOT_CONFIGURED), NoLog)
    ELSE CHOOSE out \in { IF t.raised THEN Raised(SmsExcept(t.exc), t.log) ELSE t :
                            t \in {SmsTry(recipients, reply)} } : TRUE

\* --------------------------------------------------------- NotificationService

EMAIL_PROVIDER == "EmailNotificationProvider"

SMS_PROVIDER == "SMSNotificationProvider"

\* NotificationService.__init__
Registry ==
    [c \in {"email", "sms"} |-> IF c = "email" THEN EMAIL_PROVIDER ELSE SMS_PROVIDER]

\* provider.send(recipients, title, description, priority), by the provider's class
ProviderSend(provider, recipients, priority, env) ==
    CHOOSE out \in
        { [r EXCEPT !.log = Cat([NoLog EXCEPT !.providerCalls =
                                    <<IF provider = EMAIL_PROVIDER THEN "email" ELSE "sms">>],
                                r.log)] :
          r \in {IF provider = EMAIL_PROVIDER
                  THEN EmailSend(recipients, priority, env.mail)
                  ELSE SmsSend(recipients, env.reply)} } : TRUE

\* A variant of send_notification that falls back to the email provider for a
\* channel that has none.
send_notification_fallback(notification_type, recipients, priority, env) ==
    ProviderSend(IF notification_type \in DOMAIN providers
                 THEN providers[notification_type] ELSE EMAIL_PROVIDER,
                 recipients, priority, env)

send_notification(notification_type, recipients, priority, env) ==
    IF notification_type \notin DOMAIN providers
    THEN Raised(ValidationError(<<"Unsupported notification type: ", notification_type>>),
                NoLog)
    ELSE ProviderSend(providers[notification_type], recipients, priority, env)

\* The entry send_multi_channel stores for one attempted channel.
ChannelEntry(r) ==
    IF r.raised THEN [success |-> FALSE, error |-> Str(r.exc)]
                ELSE [success |-> r.value, error |-> None]

\* A variant of ChannelStep without the check for an empty recipient list.
ChannelStepNoSkip(acc, entry, priority, env) ==
    CHOOSE out \in
        { [results |-> Put(acc.results, entry.channel, ChannelEntry(r)),
           log |-> Cat(Cat(acc.log, [NoLog EXCEPT !.attempts =
                                <<[channel |-> entry.channel, raised |-> r.raised,
                                   exc |-> r.exc]>>]),
                       r.log)] :
          r \in {send_notification(entry.channel, entry.recipients, priority, env)} } : TRUE

\* The previous call sent to this channel and these recipients, with success.
AlreadySent(entry) ==
    /\ prev.call.op = "send_multi_channel"
    /\ \E i \in DOMAIN prev.call.channels : prev.call.channels[i] = entry
    /\ entry.channel \in DOMAIN prev.ret.value
    /\ prev.ret.value[entry.channel].success

\* A variant of ChannelStep that remembers what the previous call delivered and
\* does not send it a second time.
ChannelStepDedup(acc, entry, priority, env) ==
    IF entry.recipients = <<>> \/ AlreadySent(entry)
    THEN acc
    ELSE ChannelStepNoSkip(acc, entry, priority, env)

\* One iteration of the loop of send_multi_channel over channels.items().
ChannelStep(acc, entry, priority, env) ==
    IF entry.recipients = <<>>
    THEN acc
    ELSE CHOOSE out \in
            { [results |-> Put(acc.results, entry.channel, ChannelEntry(r)),
               log |-> Cat(Cat(acc.log, [NoLog EXCEPT !.attempts =
                                    <<[channel |-> entry.channel, raised |-> r.raised,
                                       exc |-> r.exc]>>]),
                           r.log)] :
              r \in {send_notification(entry.channel, entry.recipients, priority, env)} }
            : TRUE

\* A variant of ChannelLoop that ends at the first channel whose attempt raised.
RECURSIVE ChannelLoopStopsAtError(_, _, _, _, _)
ChannelLoopStopsAtError(channels, priority, env, i, acc) ==
    IF i > Len(channels) \/ \E k \in DOMAIN acc.log.attempts : acc.log.attempts[k].raised
    THEN acc
    ELSE CHOOSE out \in { ChannelLoopStopsAtError(channels, priority, env, i + 1, next) :
                            next \in {ChannelStep(acc, channels[i], priority, env)} } : TRUE

RECURSIVE ChannelLoop(_, _, _, _, _)
ChannelLoop(channels, priority, env, i, acc) ==
    IF i > Len(channels)
    THEN acc
    ELSE CHOOSE out \in { ChannelLoop(channels, priority, env, i + 1, next) :
                            next \in {ChannelStep(acc, channels[i], priority, env)} } : TRUE

\* channels is the dict in iteration order: a sequence of (channel, recipients)
\* with distinct channel names.
send_multi_channel(channels, priority, env) ==
    CHOOSE out \in { Returned(r.results, [r.log EXCEPT !.dispatch = <<r.results>>]) :
                       r \in {ChannelLoop(channels, priority, env, 1,
                                          [results |-> EmptyDict, log |-> NoLog])} } : TRUE


\* ------------------------------------------------------------ gql_mutations.py

\* The ids a caller may pass; NOTICE_ID is the notice of the table, and the
\* other id matches no row.
NOTICE_ID == "notice-1"

MISSING_ID == "notice-0"

NoticeIds == {NOTICE_ID, MISSING_ID}

\* A health facility's contact field is the empty sequence when it is None or
\* empty, and a one-address sequence otherwise.
Contacts == {<<>>, <<1>>}

\* notice.health_facility: None, or a facility with its email and phone.
NoFacility == [present |-> FALSE, email |-> <<>>, phone |-> <<>>]

Facilities ==
    {NoFacility} \cup [present : {TRUE}, email : Contacts, phone : Contacts]

\* The notification_types a caller passes; <<>> stands for None and for [].
NotificationTypes == {<<>>, <<"email">>, <<"sms">>, <<"email", "sms">>}

In(x, s) == \E i \in DOMAIN s : s[i] = x

\* str() of Notice.DoesNotExist
DOES_NOT_EXIST == <<"Notice matching query does not exist.">>

\* hasattr(notice.health_facility, 'email') and notice.health_facility.email, etc.
EmailRecipients(notice) ==
    IF notice.health_facility.present THEN notice.health_facility.email ELSE <<>>

SmsRecipients(notice) ==
    IF notice.health_facility.present THEN notice.health_facility.phone ELSE <<>>

\* A variant of RequestedTypes without the default.
RequestedTypesNoDefault(notification_types) == notification_types

\* if not notification_types: notification_types = ['email']
RequestedTypes(notification_types) ==
    IF notification_types = <<>> \/ notification_types = None
    THEN <<"email">>
    ELSE notification_types

\* The channels dict _send_notice_notification_sync builds, in insertion order.
BuildChannels(notice, notification_types) ==
    (IF In("email", RequestedTypes(notification_types)) /\ EmailRecipients(notice) # <<>>
     THEN <<[channel |-> "email", recipients |-> EmailRecipients(notice)]>>
     ELSE <<>>)
    \o
    (IF In("sms", RequestedTypes(notification_types)) /\ SmsRecipients(notice) # <<>>
     THEN <<[channel |-> "sms", recipients |-> SmsRecipients(notice)]>>
     ELSE <<>>)

\* {'error': str(exc)}
ErrorDict(exc) == [error |-> Str(exc)]

\* The body of the try block of _send_notice_notification_sync.  table is the
\* Notice table at the time of the call.
SyncTry(table, notice_id, notification_types, env) ==
    IF notice_id \notin DOMAIN table
    THEN Raised(OtherError(DOES_NOT_EXIST), NoLog)
    ELSE CHOOSE out \in
            { IF channels # <<>>
              THEN send_multi_channel(channels, table[notice_id].priority, env)
              ELSE Returned(EmptyDict, NoLog) :
              channels \in {BuildChannels(table[notice_id], notification_types)} } : TRUE

\* _send_notice_notification_sync: the except clause returns {'error': str(exc)}.
send_notice_notification_sync(table, notice_id, notification_types, env) ==
    CHOOSE out \in
        { Returned(IF t.raised THEN ErrorDict(t.exc) ELSE t.value,
                   [t.log EXCEPT !.syncRuns =
                       <<IF t.raised THEN ErrorDict(t.exc) ELSE t.value>>]) :
          t \in {SyncTry(table, notice_id, notification_types, env)} } : TRUE

\* A variant of SyncOutcome that reports success without the result.
SyncOutcomeDropsResult(result) ==
    IF "error" \in DOMAIN result
    THEN [success |-> FALSE, result |-> result]
    ELSE [success |-> TRUE, result |-> [result |-> EmptyDict, async |-> FALSE]]

\* What execute_notification_task returns for the result of the inline run.
SyncOutcome(result) ==
    IF "error" \in DOMAIN result
    THEN [success |-> FALSE, result |-> result]
    ELSE [success |-> TRUE, result |-> [result |-> result, async |-> FALSE]]

\* A variant of UseCelery that ignores the caller's use_async.
UseCeleryAlways(use_async) == CELERY_AVAILABLE

\* if CELERY_AVAILABLE and use_async
UseCelery(use_async) == CELERY_AVAILABLE /\ use_async

\* The body of the try block of execute_notification_task.  tasks is what the
\* call adds to the queue.
ExecuteTry(table, notice_id, notification_types, use_async, env) ==
    IF UseCelery(use_async)
    THEN LET l == [NoLog EXCEPT !.submitted = <<env.delay>>]
         IN  IF env.delay = "raises"
             THEN [r |-> Raised(OtherError(BROKER_ERROR), l), tasks |-> <<>>]
             ELSE [r |-> Returned([success |-> TRUE,
                                   result |-> [task_id |-> task_seq + 1, async |-> TRUE]], l),
                   tasks |-> <<[id |-> task_seq + 1, notice_id |-> notice_id,
                                notification_types |-> notification_types]>>]
    ELSE CHOOSE out \in
            { [r |-> Returned(SyncOutcome(s.value), s.log), tasks |-> <<>>] :
              s \in {send_notice_notification_sync(table, notice_id,
                                                   notification_types, env)} }
            : TRUE

\* A variant of ExecuteExcept that lets the exception through.
ExecuteNoExcept(r) == r

\* except Exception as exc: return False, {'error': str(exc)}
ExecuteExcept(r) ==
    IF r.raised
    THEN Returned([success |-> FALSE, result |-> ErrorDict(r.exc)], r.log)
    ELSE r

execute_notification_task(table, notice_id, notification_types, use_async, env) ==
    CHOOSE out \in
        { [r |-> ExecuteExcept(t.r), tasks |-> t.tasks] :
          t \in {ExecuteTry(table, notice_id, notification_types, use_async, env)} }
        : TRUE

\* ------------------------------------------------------------- the mutations

PERMISSION_DENIED == "PermissionDenied"

NOTICE_DOES_NOT_EXIST == "Notice.DoesNotExist"

PermissionDenied(message) == [type |-> PERMISSION_DENIED, message |-> message]

NoticeDoesNotExist == [type |-> NOTICE_DOES_NOT_EXIST, message |-> DOES_NOT_EXIST]

\* data.get(key, default)
Get(data, key, default) == IF key \in DOMAIN data THEN data[key] ELSE default

\* The permissions the mutations ask for.
Permissions ==
    {"notice.add_notice", "notice.add_notice_attachment", "notice.change_notice",
     "notice.delete_notice", "notice.send_notification"}

\* The callers: an anonymous one, one with every permission, and one who may
\* add notices and nothing else.
Users ==
    { [authenticated |-> FALSE, perms |-> {}],
      [authenticated |-> TRUE, perms |-> Permissions],
      [authenticated |-> TRUE, perms |-> {"notice.add_notice"}] }

\* if isinstance(user, AnonymousUser) or not user.id: raise ValidationError(...)
\* if not user.has_perms([perm]): raise PermissionDenied("Unauthorized")
Authorize(user, perm) ==
    IF ~user.authenticated
    THEN Raised(ValidationError(<<"Authentication required">>), NoLog)
    ELSE IF perm \notin user.perms
         THEN Raised(PermissionDenied(<<"Unauthorized">>), NoLog)
         ELSE Returned(TRUE, NoLog)

\* What async_mutate returns: None, or a non-empty list of errors.
MutationOk == [none |-> TRUE, errors |-> <<>>]

Errors(list) == [none |-> FALSE, errors |-> list]

ErrorEntry(message, detail) == [message |-> message, detail |-> detail]

\* One step of a mutation that the claims speak of: a save, the dispatch call
\* with its outcome, a warning.
Step(name, about) == [step |-> name, about |-> about]

Steps(s) == [NoLog EXCEPT !.steps = s]

\* The HealthFacility table, and the ids callers pass.
FACILITY_ID == "hf-1"

MISSING_FACILITY_ID == "hf-0"

HealthFacilityTable ==
    [id \in {FACILITY_ID} |-> [present |-> TRUE, email |-> <<1>>, phone |-> <<1>>]]

\* str() of HealthFacility.DoesNotExist
FACILITY_DOES_NOT_EXIST == <<"HealthFacility matching query does not exist.">>

\* Notice.objects.get(uuid=uuid) and Notice.objects.get(uuid=uuid, is_active=True)
\* find a row.  In the model a notice's uuid and id are the same key.
FoundAnyStatus(table, uuid, active_only) == uuid \in DOMAIN table

Found(table, uuid, active_only) ==
    /\ uuid \in DOMAIN table
    /\ active_only => table[uuid].is_active

\* {"message": "Notice not found", "detail": str(uuid)}
NotFound(uuid) == ErrorEntry(<<"Notice not found">>, <<uuid>>)

\* ---- CreateNoticeMutation

\* Notice(title=..., priority=data["priority"], health_facility=..., is_active=False).
\* The priority stands for the content fields of the row.
NewNotice(data, facility) ==
    [health_facility |-> facility, priority |-> data["priority"], is_active |-> FALSE]

\* What async_mutate has done so far: its outcome, the tables and the tasks
\* it submitted.
CreateState(r, table, rows, tasks) ==
    [r |-> r, notices |-> table, attachments |-> rows, tasks |-> tasks]

\* for attachment_data in attachments_data: permission check, then save
RECURSIVE AttachmentLoop(_, _, _, _, _)
AttachmentLoop(user, notice_id, attachments_data, i, acc) ==
    IF i > Len(attachments_data) \/ acc.raised
    THEN acc
    ELSE CHOOSE out \in
            { AttachmentLoop(user, notice_id, attachments_data, i + 1, next) :
              next \in
                {IF "notice.add_notice_attachment" \notin user.perms
                 THEN [acc EXCEPT !.raised = TRUE,
                          !.exc = PermissionDenied(<<"Unauthorized to add attachments">>)]
                 ELSE [acc EXCEPT
                          !.rows = Append(@, [notice |-> notice_id,
                                              title |-> attachments_data[i]]),
                          !.steps = Append(@, Step("attachment.save",
                                                   attachments_data[i]))]} } : TRUE

\* A variant of CreateResult that reports a failed dispatch to the caller.
CreateResultReportsFailure(success) ==
    IF success THEN MutationOk
    ELSE Errors(<<ErrorEntry(<<"Failed to send notification">>, <<"Unknown error">>)>>)

\* if not success: logger.warning(...)  and then  return None
CreateResult(success) == MutationOk

DispatchSteps(success) ==
    IF success
    THEN <<Step("execute_notification_task", "success")>>
    ELSE <<Step("execute_notification_task", "failure"),
           Step("logger.warning", "Notification sending failed")>>

\* if data.get("auto_send_notification", True): ... execute_notification_task(...)
CreateDispatch(table, rows, l, data, env) ==
    IF Get(data, "auto_send_notification", TRUE)
    THEN CHOOSE out \in
            { CreateState(Returned(CreateResult(x.r.value.success),
                                   Cat(l, Cat(x.r.log,
                                              Steps(DispatchSteps(x.r.value.success))))),
                          table, rows, x.tasks) :
              x \in {execute_notification_task(table, NOTICE_ID,
                                               Get(data, "notification_types", <<"email">>),
                                               Get(data, "use_async", TRUE), env)} } : TRUE
    ELSE CreateState(Returned(MutationOk, l), table, rows, <<>>)

\* The attachment loop, and what follows it.
CreateAttachments(user, data, table, l, env) ==
    CHOOSE out \in
        { IF a.raised
          THEN CreateState(Raised(a.exc, Cat(l, Steps(a.steps))), table,
                           attachments \o a.rows, <<>>)
          ELSE CreateDispatch(table, attachments \o a.rows, Cat(l, Steps(a.steps)),
                              data, env) :
          a \in {AttachmentLoop(user, NOTICE_ID, Get(data, "attachments", <<>>), 1,
                                [raised |-> FALSE, exc |-> NoExc, rows |-> <<>>,
                                 steps |-> <<>>])} } : TRUE

\* notice.save(), and what follows it.  The new row gets the id NOTICE_ID.
CreateSave(user, data, facility, env) ==
    CreateAttachments(user, data, Put(notices, NOTICE_ID, NewNotice(data, facility)),
                      Steps(<<Step("notice.save", NOTICE_ID)>>), env)

\* The body of the try block of CreateNoticeMutation.async_mutate.
CreateTry(user, data, env) ==
    IF Authorize(user, "notice.add_notice").raised
    THEN CreateState(Authorize(user, "notice.add_notice"), notices, attachments, <<>>)
    ELSE IF "health_facility_id" \notin DOMAIN data
         THEN CreateSave(user, data, NoFacility, env)
         ELSE IF data["health_facility_id"] \notin DOMAIN HealthFacilityTable
              THEN CreateState(Raised(OtherError(FACILITY_DOES_NOT_EXIST), NoLog),
                               notices, attachments, <<>>)
              ELSE CreateSave(user, data,
                              HealthFacilityTable[data["health_facility_id"]], env)

\* A variant of CreateExcept that undoes the saves of the failed mutation.
CreateExceptRollsBack(t) ==
    IF t.r.raised
    THEN CreateState(Returned(Errors(<<ErrorEntry(<<"Failed to create notice or attachments">>,
                                                  Str(t.r.exc))>>), t.r.log),
                     notices, attachments, <<>>)
    ELSE t

\* except Exception as exc: return [{"message": "Failed to create notice or
\* attachments", "detail": str(exc)}].  What was saved stays saved.
CreateExcept(t) ==
    IF t.r.raised
    THEN [t EXCEPT !.r = Returned(Errors(<<ErrorEntry(
                                     <<"Failed to create notice or attachments">>,
                                     Str(t.r.exc))>>), t.r.log)]
    ELSE t

CreateAsyncMutate(user, data, env) ==
    CHOOSE out \in { CreateExcept(t) : t \in {CreateTry(user, data, env)} } : TRUE

\* ---- UpdateNoticeMutation

\* The assignments to the row found, up to notice.save().
UpdatedRow(row, data) ==
    [row EXCEPT !.priority = Get(data, "priority", @),
                !.health_facility = IF "health_facility_id" \in DOMAIN data
                                    THEN HealthFacilityTable[data["health_facility_id"]]
                                    ELSE @]

\* The body of the try block of UpdateNoticeMutation.async_mutate.
UpdateTry(user, data) ==
    IF Authorize(user, "notice.change_notice").raised
    THEN [r |-> Authorize(user, "notice.change_notice"), notices |-> notices]
    ELSE IF ~Found(notices, data["uuid"], TRUE)
         THEN [r |-> Raised(NoticeDoesNotExist, NoLog), notices |-> notices]
         ELSE IF /\ "health_facility_id" \in DOMAIN data
                 /\ data["health_facility_id"] \notin DOMAIN HealthFacilityTable
              THEN [r |-> Raised(OtherError(FACILITY_DOES_NOT_EXIST), NoLog),
                    notices |-> notices]
              ELSE [r |-> Returned(MutationOk,
                                   Steps(<<Step("notice.save", data["uuid"])>>)),
                    notices |-> [notices EXCEPT
                                    ![data["uuid"]] = UpdatedRow(@, data)]]

\* except Notice.DoesNotExist: ...  except Exception as exc: ...
UpdateExcept(t, data) ==
    IF ~t.r.raised
    THEN t
    ELSE [t EXCEPT !.r =
            Returned(Errors(<<IF t.r.exc.type = NOTICE_DOES_NOT_EXIST
                              THEN NotFound(data["uuid"])
                              ELSE ErrorEntry(<<"Failed to update notice">>,
                                              Str(t.r.exc))>>), t.r.log)]

UpdateAsyncMutate(user, data) ==
    CHOOSE out \in { UpdateExcept(t, data) : t \in {UpdateTry(user, data)} } : TRUE

\* ---- DeleteNoticeMutation

\* for uuid in data["uuids"]: soft delete, or an error for a notice not found
RECURSIVE DeleteLoop(_, _, _)
DeleteLoop(uuids, i, acc) ==
    IF i > Len(uuids)
    THEN acc
    ELSE CHOOSE out \in
            { DeleteLoop(uuids, i + 1, next) :
              next \in
                {IF Found(acc.table, uuids[i], TRUE)
                 THEN [acc EXCEPT !.table[uuids[i]].is_active = FALSE,
                                  !.steps = Append(@, Step("notice.save", uuids[i]))]
                 ELSE [acc EXCEPT !.errors = Append(@, NotFound(uuids[i]))]} } : TRUE

DeleteAsyncMutate(user, data) ==
    IF Authorize(user, "notice.delete_notice").raised
    THEN [r |-> Returned(Errors(<<ErrorEntry(<<"Failed to delete notices">>,
                            Str(Authorize(user, "notice.delete_notice").exc))>>), NoLog),
          notices |-> notices]
    ELSE CHOOSE out \in
            { [r |-> Returned(IF d.errors = <<>> THEN MutationOk ELSE Errors(d.errors),
                              Steps(d.steps)),
               notices |-> d.table] :
              d \in {DeleteLoop(data["uuids"], 1,
                                [table |-> notices, errors |-> <<>>, steps |-> <<>>])} }
            : TRUE

\* ---- ToggleNoticeStatusMutation

ToggleAsyncMutate(user, data) ==
    IF Authorize(user, "notice.change_notice").raised
    THEN [r |-> Returned(Errors(<<ErrorEntry(<<"Failed to toggle notice status">>,
                            Str(Authorize(user, "notice.change_notice").exc))>>), NoLog),
          notices |-> notices]
    ELSE IF ~Found(notices, data["uuid"], FALSE)
         THEN [r |-> Returned(Errors(<<NotFound(data["uuid"])>>), NoLog),
               notices |-> notices]
         ELSE [r |-> Returned(MutationOk, Steps(<<Step("notice.save", data["uuid"])>>)),
               notices |-> [notices EXCEPT ![data["uuid"]].is_active = data["is_active"]]]

\* ---- SendNoticeNotificationMutation

\* str() of the TypeError of `for notification_type in None`
NOT_ITERABLE == <<"'NoneType' object is not iterable">>

\* channels[notification_type] = custom_recipients, for each of the types.
\* (The lists of types in the model name no type twice.)
CustomChannels(notification_types, custom_recipients) ==
    [i \in DOMAIN notification_types |->
        [channel |-> notification_types[i], recipients |-> custom_recipients]]

\* failed_channels = [ch for ch, result in results.items() if not result['success']]
FailedChannels(channels, results) ==
    LET Failed(e) == e.channel \in DOMAIN results /\ ~results[e.channel].success
    IN  SelectSeq(channels, Failed)

\* "; ".join([f"{ch}: {results[ch]['error']}" for ch in failed_channels])
RECURSIVE ErrorDetails(_, _, _)
ErrorDetails(failed, results, i) ==
    IF i > Len(failed)
    THEN <<>>
    ELSE (IF i > 1 THEN <<"; ">> ELSE <<>>)
         \o <<failed[i].channel, ": ">> \o results[failed[i].channel].error
         \o ErrorDetails(failed, results, i + 1)

\* if custom_recipients: the branch that sends to them directly
SendCustom(notice, notification_types, custom_recipients, env) ==
    IF notification_types = None
    THEN [r |-> Raised(OtherError(NOT_ITERABLE), NoLog), tasks |-> <<>>]
    ELSE CHOOSE out \in
            { [r |-> Returned(
                        IF FailedChannels(channels, s.value) # <<>>
                        THEN Errors(<<ErrorEntry(<<"Failed to send to some channels">>,
                                        ErrorDetails(FailedChannels(channels, s.value),
                                                     s.value, 1))>>)
                        ELSE MutationOk,
                        s.log),
               tasks |-> <<>>] :
              channels \in {CustomChannels(notification_types, custom_recipients)},
              s \in {send_multi_channel(
                        CustomChannels(notification_types, custom_recipients),
                        notice.priority, env)} } : TRUE

\* else: the branch that uses the recipients of the health facility
SendStandard(notice_id, notification_types, use_async, env) ==
    CHOOSE out \in
        { [r |-> Returned(
                    IF ~x.r.value.success
                    THEN Errors(<<ErrorEntry(<<"Failed to send notification">>,
                                    Get(x.r.value.result, "error", <<"Unknown error">>))>>)
                    ELSE MutationOk,
                    Cat(x.r.log, Steps(<<Step("execute_notification_task",
                                              IF x.r.value.success THEN "success"
                                                                   ELSE "failure")>>))),
           tasks |-> x.tasks] :
          x \in {execute_notification_task(notices, notice_id, notification_types,
                                           use_async, env)} } : TRUE

\* if custom_recipients  (None and the empty list are falsy)
HasCustomRecipients(data) ==
    /\ "recipients" \in DOMAIN data
    /\ data["recipients"] # None
    /\ data["recipients"] # <<>>

\* The body of the try block of SendNoticeNotificationMutation.async_mutate.
SendTry(user, data, env) ==
    IF Authorize(user, "notice.send_notification").raised
    THEN [r |-> Authorize(user, "notice.send_notification"), tasks |-> <<>>]
    ELSE IF ~Found(notices, data["uuid"], FALSE)
         THEN [r |-> Raised(NoticeDoesNotExist, NoLog), tasks |-> <<>>]
         ELSE IF HasCustomRecipients(data)
              THEN SendCustom(notices[data["uuid"]],
                              Get(data, "notification_types", <<"email">>),
                              data["recipients"], env)
              ELSE SendStandard(data["uuid"],
                                Get(data, "notification_types", <<"email">>),
                                Get(data, "use_async", TRUE), env)

\* except Notice.DoesNotExist: ...  except Exception as exc: ...
SendExcept(t, data) ==
    IF ~t.r.raised
    THEN t
    ELSE [t EXCEPT !.r =
            Returned(Errors(<<IF t.r.exc.type = NOTICE_DOES_NOT_EXIST
                              THEN NotFound(data["uuid"])
                              ELSE ErrorEntry(<<"Failed to send notification">>,
                                              Str(t.r.exc))>>), t.r.log)]

SendAsyncMutate(user, data, env) ==
    CHOOSE out \in { SendExcept(t, data) : t \in {SendTry(user, data, env)} } : TRUE

\* ---------------------------------------------------------------- inputs

Prefix(n) == [i \in 1..n |-> i]

Reversed(n) == [i \in 1..n |-> n + 1 - i]

\* Recipient lists: the lists 1..n, and the longest one backwards.
RecipientLists == {Prefix(n) : n \in 0..MaxRecipients} \cup {Reversed(MaxRecipients)}

\* "push" is a channel no provider is registered for.
ChannelNames == {"email", "sms", "push"}

\* Channel maps: dicts, so the channel names of the entries differ.
ChannelMaps ==
    UNION { { m \in [1..k -> [channel : ChannelNames, recipients : RecipientLists]] :
                \A i, j \in 1..k : i # j => m[i].channel # m[j].channel }
            : k \in 0..MaxChannels }

\* The number of POSTs a call with these channels can issue.
SmsLength(channels) ==
    IF \E i \in DOMAIN channels : channels[i].channel = "sms"
    THEN Len(channels[CHOOSE i \in DOMAIN channels : channels[i].channel = "sms"].recipients)
    ELSE 0

Idle == [op |-> "idle"]

\* No stub transport, and no call made against one.
NoTransport == [mail |-> "accepted", reply |-> <<>>]

NoPrev == [call |-> Idle]

NoRet == [raised |-> FALSE, value |-> FALSE, exc |-> NoExc]

Outcome(r) == [raised |-> r.raised, value |-> r.value, exc |-> r.exc]


\* ---------------------------------------------------------------- actions

Settings == {Unset, "configured"}

\* A row of the Notice table.
NoticeRow(facility) == [health_facility |-> facility, priority |-> "high"]

\* The state after the module is loaded and a NotificationService constructed.
InitCommon ==
    /\ gateway_url \in Settings
    /\ api_key \in Settings
    /\ providers = Registry
    /\ queue = <<>>
    /\ task_seq = 0
    /\ call = Idle
    /\ ret = NoRet
    /\ log = NoLog
    /\ attachments = <<>>
    /\ prev = NoPrev

\* The service layer alone: no task queue and an empty Notice table.
Init ==
    /\ InitCommon
    /\ CELERY_AVAILABLE = FALSE
    /\ notices = EmptyDict
    /\ transport = NoTransport

\* The dispatch layer: CELERY_AVAILABLE as the import found it, one notice.
InitExec ==
    /\ InitCommon
    /\ CELERY_AVAILABLE \in BOOLEAN
    /\ \E facility \in Facilities : notices = [id \in {NOTICE_ID} |-> NoticeRow(facility)]
    /\ transport = NoTransport

\* A caller invokes NotificationService.send_notification.
SendNotification ==
    /\ call.op = "idle"
    /\ \E channel \in ChannelNames, recipients \in RecipientLists,
          priority \in Priorities, mail \in MailOutcomes :
         \E reply \in [1..(IF channel = "sms" THEN Len(recipients) ELSE 0) -> PostOutcomes] :
            \E r \in {send_notification(channel, recipients, priority,
                                        [mail |-> mail, reply |-> reply])} :
                /\ call' = [op |-> "send_notification", channel |-> channel,
                            recipients |-> recipients, priority |-> priority]
                /\ ret' = Outcome(r)
                /\ log' = r.log
    /\ UNCHANGED <<gateway_url, api_key, providers, CELERY_AVAILABLE, notices,
                   queue, task_seq, attachments, transport, prev>>

\* A caller invokes NotificationService.send_multi_channel (priority defaulted).
SendMultiChannel ==
    /\ call.op = "idle"
    /\ \E channels \in ChannelMaps, mail \in MailOutcomes :
         \E reply \in [1..SmsLength(channels) -> PostOutcomes] :
            \E r \in {send_multi_channel(channels, "normal",
                                         [mail |-> mail, reply |-> reply])} :
                /\ call' = [op |-> "send_multi_channel", channels |-> channels]
                /\ ret' = Outcome(r)
                /\ log' = r.log
    /\ UNCHANGED <<gateway_url, api_key, providers, CELERY_AVAILABLE, notices,
                   queue, task_seq, attachments, transport, prev>>

\* What the environment can do to one call of execute_notification_task: with
\* a task submitted only the broker is reached, without one only the transports.
ExecuteEnvs(use_async) ==
    IF UseCelery(use_async)
    THEN [mail : {"accepted"}, reply : [1..0 -> PostOutcomes], delay : DelayOutcomes]
    ELSE [mail : MailOutcomes, reply : [1..1 -> PostOutcomes], delay : {"queued"}]

\* A caller invokes execute_notification_task.
ExecuteNotificationTask ==
    /\ call.op = "idle"
    /\ \E notice_id \in NoticeIds, notification_types \in NotificationTypes,
          use_async \in BOOLEAN :
         \E env \in ExecuteEnvs(use_async) :
            \E x \in {execute_notification_task(notices, notice_id, notification_types,
                                                use_async, env)} :
                /\ UseCelery(use_async) => task_seq < MaxTasks
                /\ call' = [op |-> "execute_notification_task", notice_id |-> notice_id,
                            notification_types |-> notification_types,
                            use_async |-> use_async]
                /\ ret' = Outcome(x.r)
                /\ log' = x.r.log
                /\ queue' = queue \o x.tasks
                /\ task_seq' = task_seq + Len(x.tasks)
    /\ UNCHANGED <<gateway_url, api_key, providers, CELERY_AVAILABLE, notices,
                   attachments, transport, prev>>

\* A worker takes the oldest task and runs send_notice_notification.
Worker ==
    /\ call.op = "idle"
    /\ queue # <<>>
    /\ \E mail \in MailOutcomes : \E reply \in [1..1 -> PostOutcomes] :
         \E r \in {send_notice_notification_sync(notices, Head(queue).notice_id,
                        Head(queue).notification_types,
                        [mail |-> mail, reply |-> reply])} :
             /\ call' = [op |-> "send_notice_notification", task |-> Head(queue)]
             /\ ret' = Outcome(r)
             /\ log' = r.log
    /\ queue' = Tail(queue)
    /\ UNCHANGED <<gateway_url, api_key, providers, CELERY_AVAILABLE, notices, task_seq,
                   attachments, transport, prev>>

\* The caller has the result; the call's ChannelMap and DispatchResult are dropped.
Return ==
    /\ call.op # "idle"
    /\ call' = Idle
    /\ ret' = NoRet
    /\ log' = NoLog
    /\ UNCHANGED <<gateway_url, api_key, providers, CELERY_AVAILABLE, notices,
                   queue, task_seq, attachments, transport, prev>>

\* ---- the mutations of the notice module

\* A dict with the key, one for each value, and the dict without it.
Options(key, values) == {EmptyDict} \cup {[k \in {key} |-> v] : v \in values}

\* {**a, **b}
Merge(a, b) == [k \in (DOMAIN a) \cup (DOMAIN b) |-> IF k \in DOMAIN b THEN b[k] ELSE a[k]]

\* The attachments a caller sends along; each stands for one NoticeAttachmentInput.
AttachmentLists == {<<"a1">>, <<"a1", "a2">>}

\* What a caller can say about the notification of a new notice.
DispatchOptions ==
    { EmptyDict,
      [k \in {"auto_send_notification"} |-> FALSE],
      [k \in {"use_async"} |-> FALSE],
      [k \in {"notification_types", "use_async"} |->
          IF k = "use_async" THEN FALSE ELSE <<"sms">>],
      [k \in {"notification_types"} |-> None] }

CreateInputs ==
    { Merge(Merge(Merge([k \in {"priority"} |-> "high"], h), a), d) :
        h \in Options("health_facility_id", {FACILITY_ID, MISSING_FACILITY_ID}),
        a \in Options("attachments", AttachmentLists),
        d \in DispatchOptions }

UpdateInputs ==
    { Merge(Merge([k \in {"uuid"} |-> u], [k \in {"priority"} |-> p]), h) :
        u \in NoticeIds, p \in {"high", "low"},
        h \in Options("health_facility_id", {FACILITY_ID, MISSING_FACILITY_ID}) }

DeleteInputs ==
    { [k \in {"uuids"} |-> uuids] :
        uuids \in {<<NOTICE_ID>>, <<NOTICE_ID, NOTICE_ID>>, <<MISSING_ID, NOTICE_ID>>} }

ToggleInputs ==
    { [k \in {"uuid", "is_active"} |-> IF k = "uuid" THEN u ELSE b] :
        u \in NoticeIds, b \in BOOLEAN }

SendInputs ==
    { Merge(Merge(Merge([k \in {"uuid"} |-> u], t), c), a) :
        u \in NoticeIds,
        t \in Options("notification_types",
                      {None, <<>>, <<"email", "sms">>, <<"push">>}),
        c \in Options("recipients", {<<>>, Prefix(MaxRecipients)}),
        a \in Options("use_async", {FALSE}) }

\* What the environment can do to one call of the send mutation: with custom
\* recipients the transports are reached, the gateway answering every POST of
\* the call alike; without them, what execute_notification_task can meet.
SendEnvs(data) ==
    IF HasCustomRecipients(data)
    THEN [mail : MailOutcomes,
          reply : {[i \in 1..Len(data["recipients"]) |-> o] : o \in PostOutcomes},
          delay : {"queued"}]
    ELSE ExecuteEnvs(Get(data, "use_async", TRUE))

\* The mutations start from an empty Notice table.
InitNotice ==
    /\ InitCommon
    /\ CELERY_AVAILABLE \in BOOLEAN
    /\ notices = EmptyDict
    /\ transport = NoTransport

\* The send mutation is run on a notice in the table, active or not.
InitSend ==
    /\ InitCommon
    /\ CELERY_AVAILABLE \in BOOLEAN
    /\ \E b \in BOOLEAN :
         notices = [id \in {NOTICE_ID} |->
                       [health_facility |-> HealthFacilityTable[FACILITY_ID],
                        priority |-> "high", is_active |-> b]]
    /\ transport = NoTransport

CreateNoticeMutation ==
    /\ call.op = "idle"
    /\ NOTICE_ID \notin DOMAIN notices
    /\ \E user \in Users, data \in CreateInputs :
         \E env \in ExecuteEnvs(Get(data, "use_async", TRUE)) :
            \E x \in {CreateAsyncMutate(user, data, env)} :
                /\ (x.tasks # <<>>) => task_seq < MaxTasks
                /\ call' = [op |-> "CreateNoticeMutation", user |-> user, data |-> data]
                /\ ret' = Outcome(x.r)
                /\ log' = x.r.log
                /\ notices' = x.notices
                /\ attachments' = x.attachments
                /\ queue' = queue \o x.tasks
                /\ task_seq' = task_seq + Len(x.tasks)
    /\ UNCHANGED <<gateway_url, api_key, providers, CELERY_AVAILABLE, transport, prev>>

UpdateNoticeMutation ==
    /\ call.op = "idle"
    /\ \E user \in Users, data \in UpdateInputs :
         \E x \in {UpdateAsyncMutate(user, data)} :
            /\ call' = [op |-> "UpdateNoticeMutation", user |-> user, data |-> data]
            /\ ret' = Outcome(x.r)
            /\ log' = x.r.log
            /\ notices' = x.notices
    /\ UNCHANGED <<gateway_url, api_key, providers, CELERY_AVAILABLE, queue, task_seq,
                   attachments, transport, prev>>

DeleteNoticeMutation ==
    /\ call.op = "idle"
    /\ \E user \in Users, data \in DeleteInputs :
         \E x \in {DeleteAsyncMutate(user, data)} :
            /\ call' = [op |-> "DeleteNoticeMutation", user |-> user, data |-> data]
            /\ ret' = Outcome(x.r)
            /\ log' = x.r.log
            /\ notices' = x.notices
    /\ UNCHANGED <<gateway_url, api_key, providers, CELERY_AVAILABLE, queue, task_seq,
                   attachments, transport, prev>>

ToggleNoticeStatusMutation ==
    /\ call.op = "idle"
    /\ \E user \in Users, data \in ToggleInputs :
         \E x \in {ToggleAsyncMutate(user, data)} :
            /\ call' = [op |-> "ToggleNoticeStatusMutation", user |-> user, data |-> data]
            /\ ret' = Outcome(x.r)
            /\ log' = x.r.log
            /\ notices' = x.notices
    /\ UNCHANGED <<gateway_url, api_key, providers, CELERY_AVAILABLE, queue, task_seq,
                   attachments, transport, prev>>

SendNoticeNotificationMutation ==
    /\ call.op = "idle"
    /\ \E user \in Users, data \in SendInputs :
         \E env \in SendEnvs(data) :
            \E x \in {SendAsyncMutate(user, data, env)} :
                /\ (x.tasks # <<>>) => task_seq < MaxTasks
                /\ call' = [op |-> "SendNoticeNotificationMutation", user |-> user,
                            data |-> data]
                /\ ret' = Outcome(x.r)
                /\ log' = x.r.log
                /\ queue' = queue \o x.tasks
                /\ task_seq' = task_seq + Len(x.tasks)
    /\ UNCHANGED <<gateway_url, api_key, providers, CELERY_AVAILABLE, notices,
                   attachments, transport, prev>>

NextNotice ==
    \/ CreateNoticeMutation
    \/ UpdateNoticeMutation
    \/ DeleteNoticeMutation
    \/ ToggleNoticeStatusMutation
    \/ Return

SpecNotice == InitNotice /\ [][NextNotice]_vars

NextSend == SendNoticeNotificationMutation \/ Return

SpecSend == InitSend /\ [][NextSend]_vars

\* ---- the service against stub transports, with the previous call remembered

\* The stub transports: send_mail and the gateway answer every call the same way.
StubTransports == [mail : MailOutcomes, reply : [1..MaxRecipients -> PostOutcomes]]

\* The channel maps and single sends a caller repeats against the stubs.
RepeatMaps ==
    { <<[channel |-> "email", recipients |-> Prefix(MaxRecipients)],
        [channel |-> "sms", recipients |-> Prefix(MaxRecipients)]>>,
      <<[channel |-> "sms", recipients |-> Prefix(MaxRecipients)],
        [channel |-> "push", recipients |-> Prefix(MaxRecipients)]>>,
      <<[channel |-> "email", recipients |-> <<>>],
        [channel |-> "sms", recipients |-> Reversed(MaxRecipients)]>> }

InitStub ==
    /\ InitCommon
    /\ CELERY_AVAILABLE = FALSE
    /\ notices = EmptyDict
    /\ transport \in StubTransports

StubSendMultiChannel ==
    /\ call.op = "idle"
    /\ \E channels \in RepeatMaps :
         \E r \in {send_multi_channel(channels, "normal", transport)} :
            /\ call' = [op |-> "send_multi_channel", channels |-> channels]
            /\ ret' = Outcome(r)
            /\ log' = r.log
    /\ UNCHANGED <<gateway_url, api_key, providers, CELERY_AVAILABLE, notices,
                   queue, task_seq, attachments, transport, prev>>

StubSendNotification ==
    /\ call.op = "idle"
    /\ \E channel \in ChannelNames :
         \E r \in {send_notification(channel, Prefix(MaxRecipients), "normal", transport)} :
            /\ call' = [op |-> "send_notification", channel |-> channel,
                        recipients |-> Prefix(MaxRecipients), priority |-> "normal"]
            /\ ret' = Outcome(r)
            /\ log' = r.log
    /\ UNCHANGED <<gateway_url, api_key, providers, CELERY_AVAILABLE, notices,
                   queue, task_seq, attachments, transport, prev>>

\* The caller has the result, and keeps it to compare the next call with.
StubReturn ==
    /\ call.op # "idle"
    /\ prev' = [call |-> call, ret |-> ret, log |-> log]
    /\ call' = Idle
    /\ ret' = NoRet
    /\ log' = NoLog
    /\ UNCHANGED <<gateway_url, api_key, providers, CELERY_AVAILABLE, notices,
                   queue, task_seq, attachments, transport>>

NextStub == StubSendMultiChannel \/ StubSendNotification \/ StubReturn

SpecStub == InitStub /\ [][NextStub]_vars

Next == SendNotification \/ SendMultiChannel \/ Return

Spec == Init /\ [][Next]_vars

NextExec == ExecuteNotificationTask \/ Worker \/ Return

SpecExec == InitExec /\ [][NextExec]_vars


\* ------------------------------------------------------- claims: C1 .. C6

IsMulti == call.op = "send_multi_channel"

IsSingle == call.op = "send_notification"

\* The channels of a channel map whose recipient list is not empty.
NonEmptyChannels(channels) ==
    {channels[i].channel : i \in {j \in DOMAIN channels : channels[j].recipients # <<>>}}

\* The channel names of a log of attempts, or of provider calls.
AttemptedChannels == {log.attempts[i].channel : i \in DOMAIN log.attempts}

ProviderChannels == {log.providerCalls[i] : i \in DOMAIN log.providerCalls}

\* A logged POST that came back with status 200 and a truthy success flag.
OkPost(p) ==
    /\ ~p.outcome.raises
    /\ p.outcome.status_code = 200
    /\ p.outcome.body = "success_true"

\* C1: the result of send_multi_channel has an entry for exactly the channels
\* of the input whose recipient list is not empty.
C1_ResultKeys ==
    IsMulti => DOMAIN ret.value = NonEmptyChannels(call.channels)

\* A call that skipped a channel with no recipients and has an entry for the
\* other channel, whose send failed.
C1_Witness ==
    /\ IsMulti
    /\ Len(call.channels) = 2
    /\ call.channels[1].recipients = <<>>
    /\ DOMAIN ret.value = {call.channels[2].channel}
    /\ ~ret.value[call.channels[2].channel].success

\* C2: send_multi_channel never raises; it calls send_notification once for
\* every channel with recipients, in the order of the map, also after a call
\* that raised; a call that raised is recorded as success = false with str()
\* of the error, a call that returned as success = true with error None.
C2_Isolation ==
    IsMulti =>
        /\ ~ret.raised
        /\ AttemptedChannels = NonEmptyChannels(call.channels)
        /\ Len(log.attempts) = Cardinality(NonEmptyChannels(call.channels))
        /\ \A i \in DOMAIN log.attempts :
              LET a == log.attempts[i]
              IN  /\ a.channel \in DOMAIN ret.value
                  /\ ret.value[a.channel] =
                        IF a.raised THEN [success |-> FALSE, error |-> Str(a.exc)]
                                    ELSE [success |-> TRUE, error |-> None]
                  /\ a.raised => ret.value[a.channel].error # None

\* The first attempt raised, and the second was still made and succeeded.
C2_Witness ==
    /\ IsMulti
    /\ Len(log.attempts) = 2
    /\ log.attempts[1].raised
    /\ ~log.attempts[2].raised
    /\ ret.value[log.attempts[2].channel].success

\* C3: with the gateway configured and a non-empty recipient list, the SMS
\* provider's send returns true exactly when some POST came back with status
\* 200 and a truthy success flag, and raises exactly when none did; every
\* recipient is posted to whatever happened to the others.
C3_SmsAtLeastOne ==
    (IsSingle /\ call.channel = "sms" /\ ~SmsNotConfigured /\ call.recipients # <<>>) =>
        /\ Len(log.posts) = Len(call.recipients)
        /\ (~ret.raised /\ ret.value = TRUE) <=> (\E i \in DOMAIN log.posts : OkPost(log.posts[i]))
        /\ ret.raised <=> (\A i \in DOMAIN log.posts : ~OkPost(log.posts[i]))

\* The first recipient's POST failed and the second one's succeeded: send is true.
C3_Witness ==
    /\ IsSingle /\ call.channel = "sms" /\ ~SmsNotConfigured
    /\ Len(log.posts) = 2
    /\ ~OkPost(log.posts[1])
    /\ OkPost(log.posts[2])
    /\ ~ret.raised /\ ret.value = TRUE

\* C4: when every SMS recipient fails at a configured gateway, the 'sms' entry
\* of send_multi_channel is {success: false, error: "Failed to send SMS to any
\* recipient"}, the bare message.
C4_BareNoRecipientError ==
    (/\ IsMulti
     /\ "sms" \in NonEmptyChannels(call.channels)
     /\ ~SmsNotConfigured
     /\ \A i \in DOMAIN log.posts : ~OkPost(log.posts[i])) =>
        ret.value["sms"] = [success |-> FALSE, error |-> SMS_NO_RECIPIENT]

\* C5: with the gateway URL or the API key absent, an 'sms' channel issues no
\* POST, its entry is {success: false, error: "SMS provider not configured"},
\* and the other channels of the call are still attempted.
C5_NotConfigured ==
    (IsMulti /\ "sms" \in NonEmptyChannels(call.channels) /\ SmsNotConfigured) =>
        /\ log.posts = <<>>
        /\ AttemptedChannels = NonEmptyChannels(call.channels)
        /\ ret.value["sms"] = [success |-> FALSE, error |-> SMS_NOT_CONFIGURED]

\* The error send_notification raises for a channel without a provider.
Unsupported(channel) ==
    ValidationError(<<"Unsupported notification type: ", channel>>)

\* C6: a channel that is not in the registry makes send_notification raise the
\* unsupported-type error without entering a provider; in send_multi_channel
\* that is the channel's failed entry, and the registered channels of the call
\* are attempted, reach their provider and are reported.
C6_Unsupported ==
    /\ (IsSingle /\ call.channel \notin DOMAIN providers) =>
          /\ ret.raised
          /\ ret.exc = Unsupported(call.channel)
          /\ log.providerCalls = <<>> /\ log.posts = <<>> /\ log.mails = <<>>
    /\ (IsMulti /\ \E c \in NonEmptyChannels(call.channels) : c \notin DOMAIN providers) =>
          /\ ~ret.raised
          /\ \A c \in NonEmptyChannels(call.channels) :
                IF c \in DOMAIN providers
                THEN c \in AttemptedChannels /\ c \in ProviderChannels
                                             /\ c \in DOMAIN ret.value
                ELSE /\ c \notin ProviderChannels
                     /\ c \in DOMAIN ret.value
                     /\ ret.value[c] = [success |-> FALSE, error |-> Str(Unsupported(c))]

\* An unsupported channel came first, and the registered one after it was sent.
C6_Witness ==
    /\ IsMulti
    /\ Len(log.attempts) = 2
    /\ log.attempts[1].channel = "push"
    /\ log.attempts[2].channel \in DOMAIN providers
    /\ ret.value[log.attempts[2].channel].success
    /\ ~ret.value["push"].success


\* ------------------------------------------------------ claims: C7 .. C10

IsExecute == call.op = "execute_notification_task"

\* The call tried to submit a task.
AsyncMode == log.submitted # <<>>

\* Nothing of the send ran in the caller: no run of the dispatch function, no
\* send_notification, no provider, no POST, no mail.
NoInlineSend ==
    /\ log.syncRuns = <<>> /\ log.dispatch = <<>> /\ log.attempts = <<>>
    /\ log.providerCalls = <<>> /\ log.posts = <<>> /\ log.mails = <<>>

\* (true, {task_id, async: true})
IsAcknowledgment(v) ==
    /\ v.success = TRUE
    /\ DOMAIN v.result = {"task_id", "async"}
    /\ v.result.async = TRUE

\* C7: execute_notification_task is in async mode exactly when CELERY_AVAILABLE
\* and use_async; in async mode it returns (true, {task_id, async: true}) and
\* nothing of the send ran inline; otherwise it runs the dispatch function
\* inline and returns no task id.
C7_AsyncAlwaysAcknowledged ==
    IsExecute =>
        /\ ~ret.raised
        /\ AsyncMode <=> (CELERY_AVAILABLE /\ call.use_async)
        /\ AsyncMode => (NoInlineSend /\ IsAcknowledgment(ret.value))
        /\ ~AsyncMode => (Len(log.syncRuns) = 1 /\ "task_id" \notin DOMAIN ret.value.result)

\* C7 as amended: in async mode the call returns (true, {task_id, async: true})
\* when the submission is accepted, the task being queued under that id, and
\* (false, {error}) when the submission raises; in both cases nothing of the
\* send ran inline.
C7_AsyncMode ==
    IsExecute =>
        /\ ~ret.raised
        /\ AsyncMode <=> (CELERY_AVAILABLE /\ call.use_async)
        /\ AsyncMode =>
              /\ NoInlineSend
              /\ IF log.submitted = <<"queued">>
                 THEN /\ IsAcknowledgment(ret.value)
                      /\ queue # <<>>
                      /\ queue[Len(queue)].id = ret.value.result.task_id
                      /\ queue[Len(queue)].notice_id = call.notice_id
                 ELSE /\ ret.value.success = FALSE
                      /\ DOMAIN ret.value.result = {"error"}
        /\ ~AsyncMode => (Len(log.syncRuns) = 1 /\ "task_id" \notin DOMAIN ret.value.result)

\* A submission that was accepted, with a facility that has contacts: the call
\* returned the acknowledgment and sent nothing.
C7_Witness ==
    /\ IsExecute
    /\ log.submitted = <<"queued">>
    /\ IsAcknowledgment(ret.value)
    /\ notices[NOTICE_ID].health_facility.email # <<>>
    /\ call.notice_id = NOTICE_ID
    /\ NoInlineSend

\* C8: in sync mode the call returns after send_multi_channel has run, once,
\* and the outcome carries the mapping send_multi_channel returned, under
\* 'result', with async false and no task id.
C8_SyncCarriesResult ==
    (IsExecute /\ ~(CELERY_AVAILABLE /\ call.use_async) /\ log.dispatch # <<>>) =>
        /\ ~ret.raised
        /\ Len(log.dispatch) = 1
        /\ DOMAIN log.dispatch[1] = AttemptedChannels
        /\ DOMAIN ret.value.result = {"result", "async"}
        /\ ret.value.result.result = log.dispatch[1]
        /\ ret.value.result.async = FALSE

\* The caller asked for async, no backend is available, and the inline send
\* reached both channels, one of which failed.
C8_Witness ==
    /\ IsExecute
    /\ ~CELERY_AVAILABLE /\ call.use_async
    /\ Len(log.dispatch) = 1
    /\ DOMAIN log.dispatch[1] = {"email", "sms"}
    /\ log.dispatch[1]["email"].success
    /\ ~log.dispatch[1]["sms"].success
    /\ DOMAIN ret.value.result = {"result", "async"}

\* C9: execute_notification_task lets no exception escape; it returns a pair
\* of a boolean and a mapping, also for an id without a notice and when the
\* submission raises.
C9_NoEscape ==
    IsExecute =>
        /\ ~ret.raised
        /\ ret.value.success \in BOOLEAN
        /\ DOMAIN ret.value.result \subseteq {"error", "task_id", "async", "result"}

\* The submission raised and the call returned (false, {error}).
C9_Witness ==
    /\ IsExecute
    /\ log.submitted = <<"raises">>
    /\ ~ret.raised
    /\ ret.value = [success |-> FALSE, result |-> [error |-> BROKER_ERROR]]

\* The dispatch failed: the submission raised, the dispatch function ended in
\* its except clause, or the send of an attempted channel failed.
DispatchFailed ==
    \/ log.submitted = <<"raises">>
    \/ \E i \in DOMAIN log.syncRuns : "error" \in DOMAIN log.syncRuns[i]
    \/ \E i \in DOMAIN log.attempts : log.attempts[i].raised

\* C10: whenever the dispatch fails, execute_notification_task returns
\* success = false with a mapping that has an 'error'.
C10_FailureReported ==
    (IsExecute /\ DispatchFailed) =>
        /\ ~ret.raised
        /\ ret.value.success = FALSE
        /\ "error" \in DOMAIN ret.value.result

\* ------------------------------------------------- claims C13 to C15 (Spec)

IsEmailSend == IsSingle /\ call.channel = "email"

IsSmsSend == IsSingle /\ call.channel = "sms"

\* The colour the e-mail template shows for each priority string of the model,
\* read off the table of EmailNotificationProvider.send without regard to case.
ColorOf(priority) ==
    CASE priority \in {"high", "HIGH"} -> "#e74c3c"
      [] priority = "Medium"           -> "#f39c12"
      [] priority = "low"              -> "#27ae60"
      [] priority = "URGENT"           -> "#c0392b"
      [] OTHER                         -> "#3498db"

UnknownPriority(priority) == priority \in {"critical", ""}

\* C13: EmailNotificationProvider.send renders the message in the colour its
\* table gives the priority, whatever the priority's case; a priority outside
\* the table gets #3498db, and with a non-empty recipient list and a transport
\* that accepts the message the send still returns True.
C13_PriorityColor ==
    IsEmailSend =>
        /\ \A i \in DOMAIN log.mails : log.mails[i].color = ColorOf(call.priority)
        /\ (call.recipients # <<>>) =>
               /\ Len(log.mails) = 1
               /\ (log.mails[1].outcome = "accepted") => (~ret.raised /\ ret.value = TRUE)

C13_Witness ==
    /\ IsEmailSend
    /\ UnknownPriority(call.priority)
    /\ Len(log.mails) = 1
    /\ log.mails[1].color = "#3498db"
    /\ ~ret.raised /\ ret.value = TRUE

\* The text the e-mail provider's error carries for a transport that raised.
EmailFailure == <<"Failed to send email: ">> \o SMTP_ERROR

\* s occurs in t as a run of consecutive fragments.
Carries(t, s) ==
    \E k \in 0..(Len(t) - Len(s)) : \A i \in 1..Len(s) : t[k + i] = s[i]

SmsTargets ==
    IF IsSmsSend THEN call.recipients
    ELSE IF IsMulti /\ (\E i \in DOMAIN call.channels : call.channels[i].channel = "sms")
         THEN call.channels[CHOOSE i \in DOMAIN call.channels :
                                call.channels[i].channel = "sms"].recipients
         ELSE <<>>

\* C15: with the gateway configured, SMSNotificationProvider.send issues one
\* POST for each recipient and no other, in the order of the recipient list;
\* a POST that raises, answers with another status than 200 or reports failure
\* is followed by the POSTs of all later recipients, and the last recipient's
\* POST is the last one.
C15_OnePostPerRecipient ==
    ((IsSingle \/ IsMulti) /\ ~SmsNotConfigured) =>
        /\ Len(log.posts) = Len(SmsTargets)
        /\ \A i \in DOMAIN log.posts : log.posts[i].to = SmsTargets[i]

C15_Witness ==
    /\ IsSmsSend
    /\ ~SmsNotConfigured
    /\ call.recipients = Reversed(MaxRecipients)
    /\ Len(log.posts) = MaxRecipients
    /\ ~PostSucceeded(log.posts[1].outcome)
    /\ log.posts[MaxRecipients].to = 1

\* ---------------------------------------------------- claim C16 (SpecExec)

IsWorker == call.op = "send_notice_notification"

\* The dispatch function ran in this call, inline or in the worker.
RanSync == (IsExecute \/ IsWorker) /\ log.syncRuns # <<>>

SyncNoticeId == IF IsExecute THEN call.notice_id ELSE call.task.notice_id

SyncTypes == IF IsExecute THEN call.notification_types ELSE call.task.notification_types

\* c is among the requested types, 'email' being the request when none is given.
Requested(c, notification_types) ==
    IF notification_types = <<>> THEN c = "email" ELSE In(c, notification_types)

\* The notice's facility exists and has a contact for c.
HasContact(c, notice) ==
    /\ notice.health_facility.present
    /\ IF c = "email" THEN notice.health_facility.email # <<>>
                      ELSE notice.health_facility.phone # <<>>

ExpectedChannels ==
    {c \in {"email", "sms"} :
        Requested(c, SyncTypes) /\ HasContact(c, notices[SyncNoticeId])}

Repeated == call.op # "idle" /\ prev.call = call

IsCreate == call.op = "CreateNoticeMutation"

\* The positions in the steps of the call at which the named step was taken.
StepsNamed(name) == {i \in DOMAIN log.steps : log.steps[i].step = name}

Dispatched == StepsNamed("execute_notification_task") # {}

DispatchReportedFailure ==
    \E i \in StepsNamed("execute_notification_task") : log.steps[i].about = "failure"

AttachmentsGiven == Get(call.data, "attachments", <<>>)

\* The facility the new notice refers to, by the input.
FacilityGiven ==
    IF "health_facility_id" \in DOMAIN call.data
    THEN HealthFacilityTable[call.data["health_facility_id"]]
    ELSE NoFacility

\* C11: when CreateNoticeMutation reaches the dispatch, the notice and all its
\* attachments are stored, and they stay stored as saved and the mutation
\* returns None (no errors) whether execute_notification_task reports success
\* or failure; the one trace of a failed dispatch is the warning.
C11_DispatchNonFatal ==
    (IsCreate /\ Dispatched) =>
        /\ ~ret.raised
        /\ ret.value = MutationOk
        /\ NOTICE_ID \in DOMAIN notices
        /\ notices[NOTICE_ID].is_active = FALSE
        /\ notices[NOTICE_ID].priority = call.data["priority"]
        /\ notices[NOTICE_ID].health_facility = FacilityGiven
        /\ Len(attachments) = Len(AttachmentsGiven)
        /\ \A i \in DOMAIN attachments :
              attachments[i] = [notice |-> NOTICE_ID, title |-> AttachmentsGiven[i]]
        /\ DispatchReportedFailure <=> (StepsNamed("logger.warning") # {})
        /\ DispatchReportedFailure <=> (log.submitted = <<"raises">>)

\* The broker refused the task of a notice created with two attachments.
C11_Witness ==
    /\ IsCreate
    /\ DispatchReportedFailure
    /\ StepsNamed("logger.warning") # {}
    /\ ret.value = MutationOk
    /\ NOTICE_ID \in DOMAIN notices
    /\ Len(attachments) = 2

IsUpdate == call.op = "UpdateNoticeMutation"

IsDelete == call.op = "DeleteNoticeMutation"

IsToggle == call.op = "ToggleNoticeStatusMutation"

Allowed(user, perm) == user.authenticated /\ perm \in user.perms

\* The notice is in the table and not active.
Inactive(table, uuid) == uuid \in DOMAIN table /\ ~table[uuid].is_active

ReportsNotFound(value, uuid) ==
    \E i \in DOMAIN value.errors : value.errors[i] = NotFound(uuid)

\* One step of the mutations, seen from the notices it starts from.
C17_Step ==
    /\ (call'.op = "CreateNoticeMutation" /\ NOTICE_ID \in DOMAIN notices') =>
          ~notices'[NOTICE_ID].is_active
    /\ \A id \in DOMAIN notices :
          /\ id \in DOMAIN notices'
          /\ (~notices[id].is_active
                /\ call'.op \in {"UpdateNoticeMutation", "DeleteNoticeMutation"}) =>
                notices'[id] = notices[id]
          /\ (~notices[id].is_active /\ notices'[id].is_active) =>
                call'.op = "ToggleNoticeStatusMutation"
    /\ (/\ call'.op = "UpdateNoticeMutation"
        /\ Allowed(call'.user, "notice.change_notice")
        /\ Inactive(notices, call'.data["uuid"])) =>
          ret'.value = Errors(<<NotFound(call'.data["uuid"])>>)
    /\ (call'.op = "DeleteNoticeMutation" /\ Allowed(call'.user, "notice.delete_notice")) =>
          \A i \in DOMAIN call'.data["uuids"] :
             /\ Inactive(notices, call'.data["uuids"][i]) =>
                   ReportsNotFound(ret'.value, call'.data["uuids"][i])
             /\ Inactive(notices', call'.data["uuids"][i])
                   \/ call'.data["uuids"][i] \notin DOMAIN notices
             /\ (\E j \in 1..(i - 1) : call'.data["uuids"][j] = call'.data["uuids"][i]) =>
                   ReportsNotFound(ret'.value, call'.data["uuids"][i])

\* C17: CreateNoticeMutation stores the notice with is_active false; a caller
\* who passes the permission check and runs UpdateNoticeMutation or
\* DeleteNoticeMutation on a notice that is not active gets "Notice not
\* found", and the notice stays as it is; only ToggleNoticeStatusMutation makes
\* a notice active; DeleteNoticeMutation leaves the notice it deletes inactive,
\* so that deleting it a second time reports "Notice not found".
C17_OnlyActive == [][C17_Step]_vars

\* One call deleted the same notice twice: the first deletion found it active
\* (so it had been toggled), the second reported "Notice not found".
C17_Witness ==
    /\ IsDelete
    /\ Allowed(call.user, "notice.delete_notice")
    /\ call.data["uuids"] = <<NOTICE_ID, NOTICE_ID>>
    /\ ret.value = Errors(<<NotFound(NOTICE_ID)>>)
    /\ Inactive(notices, NOTICE_ID)

\* The caller may add notices, not attachments, and sends attachments along
\* with a notice that can be saved.
AttachmentDenied ==
    /\ IsCreate
    /\ Allowed(call.user, "notice.add_notice")
    /\ "notice.add_notice_attachment" \notin call.user.perms
    /\ AttachmentsGiven # <<>>
    /\ Get(call.data, "health_facility_id", FACILITY_ID) \in DOMAIN HealthFacilityTable

Saves == StepsNamed("notice.save") \cup StepsNamed("attachment.save")

\* C18: in CreateNoticeMutation the dispatch comes after the save of the
\* notice and of every attachment; when the permission check of an attachment
\* fails the mutation returns an error and does not dispatch, and the notice
\* and the attachments saved up to then are still in the tables.
C18_DispatchAfterSaves ==
    IsCreate =>
        /\ \A i \in StepsNamed("execute_notification_task") : \A j \in Saves : j < i
        /\ Dispatched =>
              /\ Cardinality(StepsNamed("notice.save")) = 1
              /\ Cardinality(StepsNamed("attachment.save")) = Len(AttachmentsGiven)
        /\ (StepsNamed("notice.save") # {}) => NOTICE_ID \in DOMAIN notices
        /\ Len(attachments) = Cardinality(StepsNamed("attachment.save"))
        /\ AttachmentDenied =>
              /\ ~ret.raised
              /\ ret.value =
                    Errors(<<ErrorEntry(<<"Failed to create notice or attachments">>,
                                        <<"Unauthorized to add attachments">>)>>)
              /\ ~Dispatched
              /\ log.submitted = <<>> /\ log.syncRuns = <<>> /\ queue = <<>>
              /\ NOTICE_ID \in DOMAIN notices
              /\ notices[NOTICE_ID].priority = call.data["priority"]

C18_Witness ==
    /\ AttachmentDenied
    /\ ~ret.value.none
    /\ ~Dispatched
    /\ NOTICE_ID \in DOMAIN notices
    /\ StepsNamed("notice.save") # {}

\* ------------------------------------------------------ claim C19 (SpecSend)

IsSend == call.op = "SendNoticeNotificationMutation"

\* The caller passes the permission check and the notice is in the table.
SendReachesNotice ==
    /\ IsSend
    /\ Allowed(call.user, "notice.send_notification")
    /\ call.data["uuid"] \in DOMAIN notices

TypesGiven == Get(call.data, "notification_types", <<"email">>)

\* The channels whose entry in the result of send_multi_channel has success false.
FailedEntries(results) == {ch \in DOMAIN results : ~results[ch].success}

\* With custom recipients: nothing is submitted and the dispatch function is not
\* run; send_multi_channel is called once, with an entry for every requested
\* type, each mail and each run of POSTs going to the custom list; the mutation
\* returns an error exactly when an entry failed, and the error names every
\* failed channel with its error.
CustomSendInline ==
    /\ ~ret.raised
    /\ log.submitted = <<>> /\ log.syncRuns = <<>>
    /\ StepsNamed("execute_notification_task") = {}
    /\ Len(log.dispatch) = 1
    /\ DOMAIN log.dispatch[1] = {TypesGiven[i] : i \in DOMAIN TypesGiven}
    /\ AttemptedChannels = DOMAIN log.dispatch[1]
    /\ \A i \in DOMAIN log.mails : log.mails[i].to = call.data["recipients"]
    /\ \A i \in DOMAIN log.posts : log.posts[i].to = call.data["recipients"][i]
    /\ ret.value.none <=> (FailedEntries(log.dispatch[1]) = {})
    /\ \A ch \in FailedEntries(log.dispatch[1]) :
          /\ Len(ret.value.errors) = 1
          /\ ret.value.errors[1].message = <<"Failed to send to some channels">>
          /\ Carries(ret.value.errors[1].detail,
                     <<ch, ": ">> \o log.dispatch[1][ch].error)

\* Without custom recipients: execute_notification_task is called once, and the
\* mutation returns an error exactly when it returned success false.
StandardSendReports ==
    /\ ~ret.raised
    /\ log.dispatch = <<>> \/ log.syncRuns # <<>>
    /\ Cardinality(StepsNamed("execute_notification_task")) = 1
    /\ ~ret.value.none <=> DispatchReportedFailure
    /\ ~ret.value.none =>
          ret.value.errors[1].message = <<"Failed to send notification">>

\* C19: SendNoticeNotificationMutation with a non-empty custom recipient list
\* sends inline through send_multi_channel, whatever use_async and the backend
\* are, to the same list for every requested type, and returns an error that
\* lists every channel whose entry has success false; without custom
\* recipients it returns an error if and only if execute_notification_task
\* returned success false.
C19_SendMutation ==
    SendReachesNotice =>
        IF HasCustomRecipients(call.data) THEN CustomSendInline ELSE StandardSendReports

\* The same, for the calls whose notification_types is a list or is left out.
C19_SendWithTypeList ==
    (SendReachesNotice /\ TypesGiven # None) =>
        IF HasCustomRecipients(call.data) THEN CustomSendInline ELSE StandardSendReports

\* Custom recipients, an async backend and no use_async = false: the send ran
\* inline, and the channel that failed is reported.
C19_InlineWitness ==
    /\ SendReachesNotice
    /\ HasCustomRecipients(call.data)
    /\ CELERY_AVAILABLE /\ "use_async" \notin DOMAIN call.data
    /\ Len(log.dispatch) = 1
    /\ log.mails # <<>> /\ log.posts # <<>>
    /\ ~ret.value.none

\* notification_types is None and custom recipients are given: nothing is sent.
C19_NoneTypes ==
    /\ SendReachesNotice
    /\ HasCustomRecipients(call.data)
    /\ TypesGiven = None
    /\ log.dispatch = <<>> /\ log.mails = <<>> /\ log.posts = <<>>
    /\ ret.value = Errors(<<ErrorEntry(<<"Failed to send notification">>, NOT_ITERABLE)>>)

=============================================================================
